---- MODULE Spec2Model ----
(***************************************************************************)
(* Model of the time-use-survey seed pipeline of urban-occupants:          *)
(*   scripts/tus/seed.py        read_seed, _map_to_internal_types,         *)
(*                              _filter_invalid_households                 *)
(*   urbanoccupants/tus.py      the per-feature mapping tables and         *)
(*                              dwellingtype_map                           *)
(* A table (pandas DataFrame) is a sequence of rows; a row is a record     *)
(* holding its index levels SN1, SN2, SN3 and its columns.                 *)
(***************************************************************************)
EXTENDS Integers, Sequences, FiniteSets, TLC

\* ---------------------------------------------------------------- bounds
\* number of household ids the input table may use
MaxHouseholds == 2
\* number of individual rows of the input table
MaxRows == 3
\* raw ages run over 0..MaxAge (AGE_MAP lists 8..99)
MaxAge == 101

\* ------------------------------------------------------------ null values
\* numpy's nan, the missing value of pandas
NaN == "nan"
\* Python's None, what a function returns when it falls off its end
None == "None"
\* pandas.isnull
isnull(v) == v \in {NaN, None}
\* a raw survey code of pytus2000 that a mapping table does not list
Unlisted == "UNLISTED"

\* ------------------------------------------- urbanoccupants/tus.py tables
\* ECONOMIC_ACTIVITY_MAP, tus.py:414-433
ECONOMIC_ACTIVITY_MAP ==
  "ECON_ACTIVE___EMPLOYEE___FULL_TIME" :> "EconomicActivity.EMPLOYEE_FULL_TIME" @@
  "ECON_INACTIVE___LONG_TERM_SICK_DISABLED" :> "EconomicActivity.LONG_TERM_SICK" @@
  "ECON_INACTIVE___OTHER_REASONS_EG_TEMP_SICK__BELIEVES_NO_JOBS" :> "EconomicActivity.INACTIVE_OTHER" @@
  "ECON_INACTIVE___DK_REASONS" :> "EconomicActivity.INACTIVE_OTHER" @@
  "ADULT___NOT_CLASSIFIABLE_EITHER_EMP__UNEMP_OR_INACTIVE" :> NaN @@
  "UNDER_16YRS___INELIGIBLE_FOR_EMPLOYMENT_QUESTIONS" :> "EconomicActivity.BELOW_16" @@
  "ECON_ACTIVE___EMPLOYEE___PART_TIME" :> "EconomicActivity.EMPLOYEE_PART_TIME" @@
  "ECON_ACTIVE___SELF_EMPLOYED___FULL_TIME" :> "EconomicActivity.SELF_EMPLOYED" @@
  "ECON_ACTIVE___SELF_EMPLOYED___PART_TIME" :> "EconomicActivity.SELF_EMPLOYED" @@
  "ECON_ACTIVE___DK_EMPSELFFULLPART" :> NaN @@
  "ECON_ACTIVE___UNEMPLOYED_ILO_DEFINITION" :> "EconomicActivity.UNEMPLOYED" @@
  "ECON_INACTIVE___RETIRED" :> "EconomicActivity.RETIRED" @@
  "ECON_INACTIVE___FULL_TIME_STUDENT" :> "EconomicActivity.INACTIVE_FULL_TIME_STUDENT" @@
  "ECON_INACTIVE___LOOKING_AFTER_FAMILY_HOME" :> "EconomicActivity.LOOKING_AFTER_HOME"

\* QUALIFICATION_MAP, tus.py:436-457
QUALIFICATION_MAP ==
  "DEGREE_LEVEL_QUALIFICATION_OR_ABOVE" :> "Qualification.LEVEL_45" @@
  "QUALIFICATIONS___CITY_AND_GUILDS___DK_LEVEL" :> NaN @@
  "QUALIFICATIONS___OTHER___BUT_DK_GRADELEVEL" :> NaN @@
  "NO_QUALIFICATIONS" :> "Qualification.NO_QUALIFICATIONS" @@
  "ELIGIBLE___NO_ANSWER" :> NaN @@
  "UNDER_16YRS___INELIGIBLE_FOR_QUALIFICATIONS_QUESTIONS" :> "Qualification.BELOW_16" @@
  "HIGHER_EDN_BELOW_DEGREE_LEVEL_EG_HNC__NURSING_QUAL" :> "Qualification.LEVEL_3" @@
  "A_LEVELS__VOCATIONAL_LEVEL_3_AND_EQUIVLNT_EG_AS_LEVEL__NVQ_3" :> "Qualification.LEVEL_3" @@
  "O_LEVELS__GCSE_GRADE_A_C__VOCATIONAL_LEVEL_2_AND_EQUIVLNT" :> "Qualification.LEVEL_2" @@
  "GCSE_BELOW_GRADE_C__CSE__VOCATIONAL_LEVEL_1_AND_EQUIVLNT" :> "Qualification.LEVEL_1" @@
  "QUALIFICATION_BELOW_GCSEO_LEVEL_EG_TRADE_APPRENTICESHIPS" :> "Qualification.APPRENTICESHIP" @@
  "OTHER_QUALIFICATION_INCL_PROFESSIONAL__VOCATIONAL__FOREIGN" :> "Qualification.OTHER_QUALIFICATION" @@
  "QUALIFICATIONS___BUT_DK_WHICH" :> NaN @@
  "QUALIFICATIONS___GCSE___BUT_DK_GRADE" :> NaN

\* HOUSEHOLDTYPE_MAP, tus.py:460-493
HOUSEHOLDTYPE_MAP ==
  "SINGLE_PERSON_HOUSEHOLD" :> "HouseholdType.ONE_PERSON_HOUSEHOLD" @@
  "SINGLE_PARENT___WITH_CHILDREN_GREATEREQUAL_16" :> "HouseholdType.LONE_PARENT_WITH_DEPENDENT_CHILDREN" @@
  "TWO_OR_MORE_COUPLES_MARRIED_OR_COHAB_WITHWITHOUT_CHILDRN" :> "HouseholdType.MULTI_PERSON_HOUSEHOLD" @@
  "SAME_SEX_COUPLES___SPONTANEOUSLY_DESCRIBED" :> "HouseholdType.COUPLE_WITHOUT_DEPENDENT_CHILDREN" @@
  "UNCLASSIFIED___MARRIED_COUPLES_IN_COMPLEX_HHLDS" :> "HouseholdType.MULTI_PERSON_HOUSEHOLD" @@
  "UNCLASSIFIED___COHABITING_COUPLES_IN_COMPLEX_HHLDS" :> "HouseholdType.MULTI_PERSON_HOUSEHOLD" @@
  "UNCLASSIFIED___SINGLE_PARENTS_IN_COMPLEX_HHLDS" :> "HouseholdType.MULTI_PERSON_HOUSEHOLD" @@
  "UNCLASSIFIED___OTHER_HHLDS_WITHOUT_COUPLES_EG_BROTHERS_DK" :> "HouseholdType.MULTI_PERSON_HOUSEHOLD" @@
  "HHLDS_WITH_2_OR_MORE_UNRELATED_PEOPLE_ONLY" :> "HouseholdType.MULTI_PERSON_HOUSEHOLD" @@
  "MARRIED_COUPLE___NO_CHILDREN_COUPLE_ONLY" :> "HouseholdType.COUPLE_WITHOUT_DEPENDENT_CHILDREN" @@
  "MARRIED_COUPLE___WITH_CHILDREN_SMALLEREQUAL_15" :> "HouseholdType.COUPLE_WITH_DEPENDENT_CHILDREN" @@
  "MARRIED_COUPLE___WITH_CHILDREN_GREATEREQUAL_16" :> "HouseholdType.COUPLE_WITH_DEPENDENT_CHILDREN" @@
  "COHAB_COUPLE___NO_CHILDREN_COUPLE_ONLY" :> "HouseholdType.COUPLE_WITHOUT_DEPENDENT_CHILDREN" @@
  "COHAB_COUPLE___WITH_CHILDREN_SMALLEREQUAL_15" :> "HouseholdType.COUPLE_WITH_DEPENDENT_CHILDREN" @@
  "COHAB_COUPLE___WITH_CHILDREN_GREATEREQUAL_16" :> "HouseholdType.COUPLE_WITH_DEPENDENT_CHILDREN" @@
  "SINGLE_PARENT____WITH_CHILDREN_SMALLEREQUAL_15" :> "HouseholdType.LONE_PARENT_WITH_DEPENDENT_CHILDREN"

\* an age table whose 15-year-olds fall into the band above
AGE_MAP_15_in_next_band ==
  [age \in 8..99 |->
     CASE age <= 9  -> "AgeStructure.AGE_8_TO_9"
       [] age <= 14 -> "AgeStructure.AGE_10_TO_14"
       [] age <= 17 -> "AgeStructure.AGE_16_TO_17"
       [] age <= 19 -> "AgeStructure.AGE_18_TO_19"
       [] age <= 24 -> "AgeStructure.AGE_20_TO_24"
       [] age <= 29 -> "AgeStructure.AGE_25_TO_29"
       [] age <= 44 -> "AgeStructure.AGE_30_TO_44"
       [] age <= 59 -> "AgeStructure.AGE_45_TO_59"
       [] age <= 64 -> "AgeStructure.AGE_60_TO_64"
       [] age <= 74 -> "AgeStructure.AGE_65_TO_74"
       [] age <= 84 -> "AgeStructure.AGE_75_TO_84"
       [] age <= 89 -> "AgeStructure.AGE_85_TO_89"
       [] OTHER     -> "AgeStructure.AGE_90_AND_OVER"]

\* AGE_MAP, tus.py:496-589
AGE_MAP ==
  8 :> "AgeStructure.AGE_8_TO_9" @@
  9 :> "AgeStructure.AGE_8_TO_9" @@
  10 :> "AgeStructure.AGE_10_TO_14" @@
  11 :> "AgeStructure.AGE_10_TO_14" @@
  12 :> "AgeStructure.AGE_10_TO_14" @@
  13 :> "AgeStructure.AGE_10_TO_14" @@
  14 :> "AgeStructure.AGE_10_TO_14" @@
  15 :> "AgeStructure.AGE_15" @@
  16 :> "AgeStructure.AGE_16_TO_17" @@
  17 :> "AgeStructure.AGE_16_TO_17" @@
  18 :> "AgeStructure.AGE_18_TO_19" @@
  19 :> "AgeStructure.AGE_18_TO_19" @@
  20 :> "AgeStructure.AGE_20_TO_24" @@
  21 :> "AgeStructure.AGE_20_TO_24" @@
  22 :> "AgeStructure.AGE_20_TO_24" @@
  23 :> "AgeStructure.AGE_20_TO_24" @@
  24 :> "AgeStructure.AGE_20_TO_24" @@
  25 :> "AgeStructure.AGE_25_TO_29" @@
  26 :> "AgeStructure.AGE_25_TO_29" @@
  27 :> "AgeStructure.AGE_25_TO_29" @@
  28 :> "AgeStructure.AGE_25_TO_29" @@
  29 :> "AgeStructure.AGE_25_TO_29" @@
  30 :> "AgeStructure.AGE_30_TO_44" @@
  31 :> "AgeStructure.AGE_30_TO_44" @@
  32 :> "AgeStructure.AGE_30_TO_44" @@
  33 :> "AgeStructure.AGE_30_TO_44" @@
  34 :> "AgeStructure.AGE_30_TO_44" @@
  35 :> "AgeStructure.AGE_30_TO_44" @@
  36 :> "AgeStructure.AGE_30_TO_44" @@
  37 :> "AgeStructure.AGE_30_TO_44" @@
  38 :> "AgeStructure.AGE_30_TO_44" @@
  39 :> "AgeStructure.AGE_30_TO_44" @@
  40 :> "AgeStructure.AGE_30_TO_44" @@
  41 :> "AgeStructure.AGE_30_TO_44" @@
  42 :> "AgeStructure.AGE_30_TO_44" @@
  43 :> "AgeStructure.AGE_30_TO_44" @@
  44 :> "AgeStructure.AGE_30_TO_44" @@
  45 :> "AgeStructure.AGE_45_TO_59" @@
  46 :> "AgeStructure.AGE_45_TO_59" @@
  47 :> "AgeStructure.AGE_45_TO_59" @@
  48 :> "AgeStructure.AGE_45_TO_59" @@
  49 :> "AgeStructure.AGE_45_TO_59" @@
  50 :> "AgeStructure.AGE_45_TO_59" @@
  51 :> "AgeStructure.AGE_45_TO_59" @@
  52 :> "AgeStructure.AGE_45_TO_59" @@
  53 :> "AgeStructure.AGE_45_TO_59" @@
  54 :> "AgeStructure.AGE_45_TO_59" @@
  55 :> "AgeStructure.AGE_45_TO_59" @@
  56 :> "AgeStructure.AGE_45_TO_59" @@
  57 :> "AgeStructure.AGE_45_TO_59" @@
  58 :> "AgeStructure.AGE_45_TO_59" @@
  59 :> "AgeStructure.AGE_45_TO_59" @@
  60 :> "AgeStructure.AGE_60_TO_64" @@
  61 :> "AgeStructure.AGE_60_TO_64" @@
  62 :> "AgeStructure.AGE_60_TO_64" @@
  63 :> "AgeStructure.AGE_60_TO_64" @@
  64 :> "AgeStructure.AGE_60_TO_64" @@
  65 :> "AgeStructure.AGE_65_TO_74" @@
  66 :> "AgeStructure.AGE_65_TO_74" @@
  67 :> "AgeStructure.AGE_65_TO_74" @@
  68 :> "AgeStructure.AGE_65_TO_74" @@
  69 :> "AgeStructure.AGE_65_TO_74" @@
  70 :> "AgeStructure.AGE_65_TO_74" @@
  71 :> "AgeStructure.AGE_65_TO_74" @@
  72 :> "AgeStructure.AGE_65_TO_74" @@
  73 :> "AgeStructure.AGE_65_TO_74" @@
  74 :> "AgeStructure.AGE_65_TO_74" @@
  75 :> "AgeStructure.AGE_75_TO_84" @@
  76 :> "AgeStructure.AGE_75_TO_84" @@
  77 :> "AgeStructure.AGE_75_TO_84" @@
  78 :> "AgeStructure.AGE_75_TO_84" @@
  79 :> "AgeStructure.AGE_75_TO_84" @@
  80 :> "AgeStructure.AGE_75_TO_84" @@
  81 :> "AgeStructure.AGE_75_TO_84" @@
  82 :> "AgeStructure.AGE_75_TO_84" @@
  83 :> "AgeStructure.AGE_75_TO_84" @@
  84 :> "AgeStructure.AGE_75_TO_84" @@
  85 :> "AgeStructure.AGE_85_TO_89" @@
  86 :> "AgeStructure.AGE_85_TO_89" @@
  87 :> "AgeStructure.AGE_85_TO_89" @@
  88 :> "AgeStructure.AGE_85_TO_89" @@
  89 :> "AgeStructure.AGE_85_TO_89" @@
  90 :> "AgeStructure.AGE_90_AND_OVER" @@
  91 :> "AgeStructure.AGE_90_AND_OVER" @@
  92 :> "AgeStructure.AGE_90_AND_OVER" @@
  93 :> "AgeStructure.AGE_90_AND_OVER" @@
  94 :> "AgeStructure.AGE_90_AND_OVER" @@
  95 :> "AgeStructure.AGE_90_AND_OVER" @@
  96 :> "AgeStructure.AGE_90_AND_OVER" @@
  97 :> "AgeStructure.AGE_90_AND_OVER" @@
  98 :> "AgeStructure.AGE_90_AND_OVER" @@
  99 :> "AgeStructure.AGE_90_AND_OVER"

\* PSEUDO_MAP, tus.py:592-596
PSEUDO_MAP ==
  "YES" :> "Pseudo.SINGLETON" @@
  "NO" :> "Pseudo.SINGLETON" @@
  NaN :> "Pseudo.SINGLETON"

\* a carer table that takes a refused answer for a no
CARER_MAP_refusal_as_no ==
  "YES" :> "Carer.CARER" @@
  "NO" :> "Carer.NO_CARER" @@
  "DKREFUSE" :> "Carer.NO_CARER"

\* CARER_MAP, tus.py:599-603
CARER_MAP ==
  "YES" :> "Carer.CARER" @@
  "NO" :> "Carer.NO_CARER" @@
  "DKREFUSE" :> NaN

\* PERSONAL_INCOME_MAP, tus.py:606-621
PERSONAL_INCOME_MAP ==
  "INELIGIBLE___UNDER_16YRS" :> "PersonalIncome.BELOW_16" @@
  "INELIGIBLE___NOT_CURRENTLY_EMPLOYED_SELF_EMPLOYED" :> NaN @@
  "_TOTPINC_____________LESS_THAN_GBP__215" :> "PersonalIncome.LESS_THAN_GBP_215" @@
  "GBP4580_TO_LESS_THAN_GBP6670" :> "PersonalIncome.BETWEEN_GBP_4590_AND_6670" @@
  "GBP6670_OR_MORE" :> "PersonalIncome.ABOVE_GBP_6670" @@
  "ELIGIBLE_CURRENT_EMPLOYEE_OR_SELF_EMP___DK_REFUSE_INCOME" :> NaN @@
  "GBP__215_TO_LESS_THAN_GBP__435" :> "PersonalIncome.BETWEEN_GBP_215_AND_435" @@
  "GBP__435_TO_LESS_THAN_GBP__870" :> "PersonalIncome.BETWEEN_GBP_435_AND_870" @@
  "GBP__870_TO_LESS_THAN_GBP1305" :> "PersonalIncome.BETWEEN_GBP_870_AND_1305" @@
  "GBP1305_TO_LESS_THAN_GBP1740" :> "PersonalIncome.BETWEEN_GBP_1305_AND_1740" @@
  "GBP1740_TO_LESS_THAN_GBP2820" :> "PersonalIncome.BETWEEN_GBP_1740_AND_2820" @@
  "GBP2820_TO_LESS_THAN_GBP3420" :> "PersonalIncome.BETWEEN_GBP_2820_AND_3420" @@
  "GBP3420_TO_LESS_THAN_GBP3830" :> "PersonalIncome.BETWEEN_GBP_3420_AND_3830" @@
  "GBP3830_TO_LESS_THAN_GBP4580" :> "PersonalIncome.BETWEEN_GBP_3830_AND_4580"

\* POPULATION_DENSITY_MAP, tus.py:624-633
POPULATION_DENSITY_MAP ==
  "MISSING" :> NaN @@
  "_POP_DEN2____0______249" :> "PopulationDensity.UP_TO_249" @@
  "_250______999" :> "PopulationDensity.BETWEEN_250_AND_999" @@
  "N1000___1999" :> "PopulationDensity.BETWEEN_1000_AND_1999" @@
  "N2000___2999" :> "PopulationDensity.BETWEEN_2000_AND_2999" @@
  "N3000___3999" :> "PopulationDensity.BETWEEN_3000_AND_3999" @@
  "N4000___4999" :> "PopulationDensity.BETWEEN_4000_AND_4999" @@
  "N5000_OR_MORE_MAX_WAS_JUST_OVER_10_000" :> "PopulationDensity.MORE_THAN_5000"

\* REGION_MAP, tus.py:636-649
REGION_MAP ==
  "NORTH_EAST" :> "Region.NORTH_EAST" @@
  "WALES" :> "Region.WALES" @@
  "SCOTLAND" :> "Region.SCOTLAND" @@
  "NORTHERN_IRELAND" :> "Region.NORTHERN_IRELAND" @@
  "NORTH_WEST_INCL_MERSEYSIDE" :> "Region.NORTH_WEST_INCL_MERSEYSIDE" @@
  "YORKSHIRE_AND_HUMBERSIDE" :> "Region.YORKSHIRE_AND_HUMBERSIDE" @@
  "EAST_MIDLANDS" :> "Region.EAST_MIDLANDS" @@
  "WEST_MIDLANDS" :> "Region.WEST_MIDLANDS" @@
  "EASTERN" :> "Region.EASTERN" @@
  "LONDON" :> "Region.LONDON" @@
  "SOUTH_EAST_EXCL_LONDON" :> "Region.SOUTH_EAST_EXCL_LONDON" @@
  "SOUTH_WEST" :> "Region.SOUTH_WEST"
\* ------------------------------------------------ urbanoccupants/types.py
\* The enumerations imported at tus.py:13-14; their members are those the
\* mapping tables and dwellingtype_map name.
EconomicActivity ==
  {"EconomicActivity.EMPLOYEE_FULL_TIME", "EconomicActivity.EMPLOYEE_PART_TIME",
   "EconomicActivity.SELF_EMPLOYED", "EconomicActivity.UNEMPLOYED",
   "EconomicActivity.RETIRED", "EconomicActivity.INACTIVE_FULL_TIME_STUDENT",
   "EconomicActivity.LOOKING_AFTER_HOME", "EconomicActivity.LONG_TERM_SICK",
   "EconomicActivity.INACTIVE_OTHER", "EconomicActivity.BELOW_16"}

Qualification ==
  {"Qualification.NO_QUALIFICATIONS", "Qualification.LEVEL_1", "Qualification.LEVEL_2",
   "Qualification.APPRENTICESHIP", "Qualification.LEVEL_3", "Qualification.LEVEL_45",
   "Qualification.OTHER_QUALIFICATION", "Qualification.BELOW_16"}

HouseholdType ==
  {"HouseholdType.ONE_PERSON_HOUSEHOLD", "HouseholdType.COUPLE_WITHOUT_DEPENDENT_CHILDREN",
   "HouseholdType.COUPLE_WITH_DEPENDENT_CHILDREN",
   "HouseholdType.LONE_PARENT_WITH_DEPENDENT_CHILDREN",
   "HouseholdType.MULTI_PERSON_HOUSEHOLD"}

AgeStructure ==
  {"AgeStructure.AGE_8_TO_9", "AgeStructure.AGE_10_TO_14", "AgeStructure.AGE_15",
   "AgeStructure.AGE_16_TO_17", "AgeStructure.AGE_18_TO_19", "AgeStructure.AGE_20_TO_24",
   "AgeStructure.AGE_25_TO_29", "AgeStructure.AGE_30_TO_44", "AgeStructure.AGE_45_TO_59",
   "AgeStructure.AGE_60_TO_64", "AgeStructure.AGE_65_TO_74", "AgeStructure.AGE_75_TO_84",
   "AgeStructure.AGE_85_TO_89", "AgeStructure.AGE_90_AND_OVER"}

Pseudo == {"Pseudo.SINGLETON"}

Carer == {"Carer.CARER", "Carer.NO_CARER"}

PersonalIncome ==
  {"PersonalIncome.BELOW_16", "PersonalIncome.LESS_THAN_GBP_215",
   "PersonalIncome.BETWEEN_GBP_215_AND_435", "PersonalIncome.BETWEEN_GBP_435_AND_870",
   "PersonalIncome.BETWEEN_GBP_870_AND_1305", "PersonalIncome.BETWEEN_GBP_1305_AND_1740",
   "PersonalIncome.BETWEEN_GBP_1740_AND_2820", "PersonalIncome.BETWEEN_GBP_2820_AND_3420",
   "PersonalIncome.BETWEEN_GBP_3420_AND_3830", "PersonalIncome.BETWEEN_GBP_3830_AND_4580",
   "PersonalIncome.BETWEEN_GBP_4590_AND_6670", "PersonalIncome.ABOVE_GBP_6670"}

PopulationDensity ==
  {"PopulationDensity.UP_TO_249", "PopulationDensity.BETWEEN_250_AND_999",
   "PopulationDensity.BETWEEN_1000_AND_1999", "PopulationDensity.BETWEEN_2000_AND_2999",
   "PopulationDensity.BETWEEN_3000_AND_3999", "PopulationDensity.BETWEEN_4000_AND_4999",
   "PopulationDensity.MORE_THAN_5000"}

Region ==
  {"Region.NORTH_EAST", "Region.WALES", "Region.SCOTLAND", "Region.NORTHERN_IRELAND",
   "Region.NORTH_WEST_INCL_MERSEYSIDE", "Region.YORKSHIRE_AND_HUMBERSIDE",
   "Region.EAST_MIDLANDS", "Region.WEST_MIDLANDS", "Region.EASTERN", "Region.LONDON",
   "Region.SOUTH_EAST_EXCL_LONDON", "Region.SOUTH_WEST"}

DwellingType ==
  {"DwellingType.DETACHED_WHOLE_HOUSE_OR_BUNGALOW",
   "DwellingType.SEMI_DETACHED_WHOLE_HOUSE_OR_BUNGALOW",
   "DwellingType.TERRACED_WHOLE_HOUSE_OR_BUNGALOW",
   "DwellingType.FLAT_PURPOSE_BUILT_BLOCK", "DwellingType.FLAT_CONVERTED_OR_SHARED_HOUSE",
   "DwellingType.CARAVAN", "DwellingType.OTHER"}

\* a decision table that looks HQ13B up and fails on a kind it does not know
dwellingtype_map_lookup(row) ==
  LET hq13a == row[1]
      hq13b == row[2]
      hq13c == row[3]
      hq13d == row[4]
  IN  IF hq13a = "A_HOUSE_OR_BUNGALOW" THEN
        IF hq13b = "DETACHED" THEN "DwellingType.DETACHED_WHOLE_HOUSE_OR_BUNGALOW"
        ELSE IF hq13b = "SEMI_DETACHED"
          THEN "DwellingType.SEMI_DETACHED_WHOLE_HOUSE_OR_BUNGALOW"
        ELSE IF hq13b = "OR_TERRACEEND_OF_TERRACE"
          THEN "DwellingType.TERRACED_WHOLE_HOUSE_OR_BUNGALOW"
        ELSE "KeyError"
      ELSE IF hq13a = "A_FLAT_OR_MAISONETTE" THEN
        IF hq13c = "A_PURPOSE_BUILT_BLOCK" THEN "DwellingType.FLAT_PURPOSE_BUILT_BLOCK"
        ELSE IF hq13c = "A_CONVERTED_HOUSESOME_OTHER_KIND_OF_BUILDING"
          THEN "DwellingType.FLAT_CONVERTED_OR_SHARED_HOUSE"
        ELSE None
      ELSE IF hq13a = "OTHER" THEN
        IF hq13d = "A_CARAVAN__MOBILE_HOME_OR_HOUSEBOAT" THEN "DwellingType.CARAVAN"
        ELSE IF hq13d = "SOME_OTHER_KIND_OF_ACCOMMODATION" THEN "DwellingType.OTHER"
        ELSE None
      ELSE IF hq13a = "MISSING1" THEN NaN
      ELSE IF hq13a = "A_ROOMROOMS" THEN "DwellingType.OTHER"
      ELSE None

\* a decision table whose 'other' branch never tells a caravan apart
dwellingtype_map_other_branch(row) ==
  LET hq13a == row[1]
      hq13b == row[2]
      hq13c == row[3]
      hq13d == row[4]
  IN  IF hq13a = "A_HOUSE_OR_BUNGALOW" THEN
        IF hq13b = "DETACHED" THEN "DwellingType.DETACHED_WHOLE_HOUSE_OR_BUNGALOW"
        ELSE IF hq13b = "SEMI_DETACHED"
          THEN "DwellingType.SEMI_DETACHED_WHOLE_HOUSE_OR_BUNGALOW"
        ELSE IF hq13b = "OR_TERRACEEND_OF_TERRACE"
          THEN "DwellingType.TERRACED_WHOLE_HOUSE_OR_BUNGALOW"
        ELSE None
      ELSE IF hq13a = "A_FLAT_OR_MAISONETTE" THEN
        IF hq13c = "A_PURPOSE_BUILT_BLOCK" THEN "DwellingType.FLAT_PURPOSE_BUILT_BLOCK"
        ELSE IF hq13c = "A_CONVERTED_HOUSESOME_OTHER_KIND_OF_BUILDING"
          THEN "DwellingType.FLAT_CONVERTED_OR_SHARED_HOUSE"
        ELSE None
      ELSE IF hq13a = "OTHER" THEN "DwellingType.OTHER"
      ELSE IF hq13a = "MISSING1" THEN NaN
      ELSE IF hq13a = "A_ROOMROOMS" THEN "DwellingType.OTHER"
      ELSE None

\* dwellingtype_map(row), tus.py:652-674.  A branch that ends without a
\* return yields Python's None.
dwellingtype_map(row) ==
  LET hq13a == row[1]
      hq13b == row[2]
      hq13c == row[3]
      hq13d == row[4]
  IN  IF hq13a = "A_HOUSE_OR_BUNGALOW" THEN
        IF hq13b = "DETACHED" THEN "DwellingType.DETACHED_WHOLE_HOUSE_OR_BUNGALOW"
        ELSE IF hq13b = "SEMI_DETACHED"
          THEN "DwellingType.SEMI_DETACHED_WHOLE_HOUSE_OR_BUNGALOW"
        ELSE IF hq13b = "OR_TERRACEEND_OF_TERRACE"
          THEN "DwellingType.TERRACED_WHOLE_HOUSE_OR_BUNGALOW"
        ELSE None
      ELSE IF hq13a = "A_FLAT_OR_MAISONETTE" THEN
        IF hq13c = "A_PURPOSE_BUILT_BLOCK" THEN "DwellingType.FLAT_PURPOSE_BUILT_BLOCK"
        ELSE IF hq13c = "A_CONVERTED_HOUSESOME_OTHER_KIND_OF_BUILDING"
          THEN "DwellingType.FLAT_CONVERTED_OR_SHARED_HOUSE"
        ELSE None
      ELSE IF hq13a = "OTHER" THEN
        IF hq13d = "A_CARAVAN__MOBILE_HOME_OR_HOUSEBOAT" THEN "DwellingType.CARAVAN"
        ELSE IF hq13d = "SOME_OTHER_KIND_OF_ACCOMMODATION" THEN "DwellingType.OTHER"
        ELSE None
      ELSE IF hq13a = "MISSING1" THEN NaN
      ELSE IF hq13a = "A_ROOMROOMS" THEN "DwellingType.OTHER"
      ELSE None

\* ------------------------------------- urbanoccupants/__init__.py features
\* chain(PeopleFeature, HouseholdFeature) of seed.py:51; str(feature) names
\* the column of the seed.
Features ==
  <<"ECONOMIC_ACTIVITY", "QUALIFICATION", "AGE", "CARER", "PERSONAL_INCOME",
    "PSEUDO", "HOUSEHOLD_TYPE", "POPULATION_DENSITY", "REGION", "DWELLING_TYPE">>

FeatureSet == {Features[i] : i \in DOMAIN Features}

\* str(HouseholdFeature.HOUSEHOLD_TYPE), seed.py:11
HOUSEHOLD_TYPE_FEATURE_NAME == "HOUSEHOLD_TYPE"

\* feature.tus_variable_name: the raw column(s) a feature is read from,
\* named after the pytus2000 enumeration that keys the feature's table
tus_variable_name(feature) ==
  CASE feature = "ECONOMIC_ACTIVITY"  -> <<"ECONACT2">>
    [] feature = "QUALIFICATION"      -> <<"HIQUAL4">>
    [] feature = "AGE"                -> <<"IAGE">>
    [] feature = "CARER"              -> <<"PROVCARE">>
    [] feature = "PERSONAL_INCOME"    -> <<"TOTPINC">>
    [] feature = "PSEUDO"             -> <<"CHILD">>
    [] feature = "HOUSEHOLD_TYPE"     -> <<"HHTYPE4">>
    [] feature = "POPULATION_DENSITY" -> <<"POP_DEN2">>
    [] feature = "REGION"             -> <<"GORPAF">>
    [] feature = "DWELLING_TYPE"      -> <<"HQ13A", "HQ13B", "HQ13C", "HQ13D">>

\* the mapping table of a feature that is mapped by lookup
tus_mapping(feature) ==
  CASE feature = "ECONOMIC_ACTIVITY"  -> ECONOMIC_ACTIVITY_MAP
    [] feature = "QUALIFICATION"      -> QUALIFICATION_MAP
    [] feature = "AGE"                -> AGE_MAP
    [] feature = "CARER"              -> CARER_MAP
    [] feature = "PERSONAL_INCOME"    -> PERSONAL_INCOME_MAP
    [] feature = "PSEUDO"             -> PSEUDO_MAP
    [] feature = "HOUSEHOLD_TYPE"     -> HOUSEHOLDTYPE_MAP
    [] feature = "POPULATION_DENSITY" -> POPULATION_DENSITY_MAP
    [] feature = "REGION"             -> REGION_MAP

\* the enumeration a feature's categories belong to
uo_type(feature) ==
  CASE feature = "ECONOMIC_ACTIVITY"  -> EconomicActivity
    [] feature = "QUALIFICATION"      -> Qualification
    [] feature = "AGE"                -> AgeStructure
    [] feature = "CARER"              -> Carer
    [] feature = "PERSONAL_INCOME"    -> PersonalIncome
    [] feature = "PSEUDO"             -> Pseudo
    [] feature = "HOUSEHOLD_TYPE"     -> HouseholdType
    [] feature = "POPULATION_DENSITY" -> PopulationDensity
    [] feature = "REGION"             -> Region
    [] feature = "DWELLING_TYPE"      -> DwellingType

\* pandas Series.map(dict) on one value: the entry of a listed key, nan for
\* a key the dict does not list
Series_map(value, arg) == IF value \in DOMAIN arg THEN arg[value] ELSE NaN

\* feature.tus_value_to_uo_value(feature_values, age) of seed.py:52-55 on the
\* raw values of one row (a tuple, one value per raw column of the feature)
tus_value_to_uo_value(feature, feature_values) ==
  IF feature = "DWELLING_TYPE" THEN dwellingtype_map(feature_values)
  ELSE Series_map(feature_values[1], tus_mapping(feature))

\* the raw values the survey can hold in the column(s) of a feature: the
\* listed codes, a code the table does not list, and a missing value
RawCodes(feature) ==
  IF feature = "AGE" THEN 0..MaxAge
  ELSE (DOMAIN tus_mapping(feature)) \cup {Unlisted, NaN}

HQ13A == {"A_HOUSE_OR_BUNGALOW", "A_FLAT_OR_MAISONETTE", "OTHER", "MISSING1",
          "A_ROOMROOMS", Unlisted, NaN}
HQ13B == {"DETACHED", "SEMI_DETACHED", "OR_TERRACEEND_OF_TERRACE", Unlisted, NaN}
HQ13C == {"A_PURPOSE_BUILT_BLOCK", "A_CONVERTED_HOUSESOME_OTHER_KIND_OF_BUILDING",
          Unlisted, NaN}
HQ13D == {"A_CARAVAN__MOBILE_HOME_OR_HOUSEBOAT", "SOME_OTHER_KIND_OF_ACCOMMODATION",
          Unlisted, NaN}

\* the raw value tuples a feature is mapped from
RawValues(feature) ==
  IF feature = "DWELLING_TYPE" THEN HQ13A \X HQ13B \X HQ13C \X HQ13D
  ELSE {<<c>> : c \in RawCodes(feature)}

\* ------------------------------------------------------------ input tables
\* Raw individuals as the merged survey files hold them: the raw columns of
\* one row.  The samples cover the five household types, a missing household
\* type, unlisted and refused codes and an age outside AGE_MAP.
RawSamples ==
  << [ECONACT2 |-> "UNDER_16YRS___INELIGIBLE_FOR_EMPLOYMENT_QUESTIONS",
      HIQUAL4 |-> "UNDER_16YRS___INELIGIBLE_FOR_QUALIFICATIONS_QUESTIONS",
      IAGE |-> 9, PROVCARE |-> "NO", TOTPINC |-> "INELIGIBLE___UNDER_16YRS",
      CHILD |-> "YES", HHTYPE4 |-> "MARRIED_COUPLE___WITH_CHILDREN_SMALLEREQUAL_15",
      POP_DEN2 |-> "N1000___1999", GORPAF |-> "LONDON",
      HQ13A |-> "A_HOUSE_OR_BUNGALOW", HQ13B |-> "DETACHED", HQ13C |-> NaN, HQ13D |-> NaN],
     [ECONACT2 |-> "ECON_ACTIVE___EMPLOYEE___FULL_TIME",
      HIQUAL4 |-> "DEGREE_LEVEL_QUALIFICATION_OR_ABOVE",
      IAGE |-> 35, PROVCARE |-> "DKREFUSE", TOTPINC |-> "GBP6670_OR_MORE",
      CHILD |-> "NO", HHTYPE4 |-> "MARRIED_COUPLE___NO_CHILDREN_COUPLE_ONLY",
      POP_DEN2 |-> "MISSING", GORPAF |-> "WALES",
      HQ13A |-> "A_FLAT_OR_MAISONETTE", HQ13B |-> NaN,
      HQ13C |-> "A_PURPOSE_BUILT_BLOCK", HQ13D |-> NaN],
     [ECONACT2 |-> "ECON_ACTIVE___DK_EMPSELFFULLPART",
      HIQUAL4 |-> "NO_QUALIFICATIONS",
      IAGE |-> 44, PROVCARE |-> "YES",
      TOTPINC |-> "ELIGIBLE_CURRENT_EMPLOYEE_OR_SELF_EMP___DK_REFUSE_INCOME",
      CHILD |-> "NO", HHTYPE4 |-> "SINGLE_PARENT____WITH_CHILDREN_SMALLEREQUAL_15",
      POP_DEN2 |-> "_250______999", GORPAF |-> "SCOTLAND",
      HQ13A |-> "OTHER", HQ13B |-> NaN, HQ13C |-> NaN,
      HQ13D |-> "A_CARAVAN__MOBILE_HOME_OR_HOUSEBOAT"],
     [ECONACT2 |-> "ECON_INACTIVE___DK_REASONS",
      HIQUAL4 |-> "QUALIFICATIONS___BUT_DK_WHICH",
      IAGE |-> 101, PROVCARE |-> "NO",
      TOTPINC |-> "INELIGIBLE___NOT_CURRENTLY_EMPLOYED_SELF_EMPLOYED",
      CHILD |-> "NO", HHTYPE4 |-> "HHLDS_WITH_2_OR_MORE_UNRELATED_PEOPLE_ONLY",
      POP_DEN2 |-> "N5000_OR_MORE_MAX_WAS_JUST_OVER_10_000", GORPAF |-> Unlisted,
      HQ13A |-> "A_HOUSE_OR_BUNGALOW", HQ13B |-> Unlisted, HQ13C |-> NaN, HQ13D |-> NaN],
     [ECONACT2 |-> "ECON_INACTIVE___RETIRED",
      HIQUAL4 |-> "ELIGIBLE___NO_ANSWER",
      IAGE |-> 70, PROVCARE |-> "YES", TOTPINC |-> "GBP__215_TO_LESS_THAN_GBP__435",
      CHILD |-> "NO", HHTYPE4 |-> "SINGLE_PERSON_HOUSEHOLD",
      POP_DEN2 |-> "_POP_DEN2____0______249", GORPAF |-> "SOUTH_WEST",
      HQ13A |-> "A_ROOMROOMS", HQ13B |-> NaN, HQ13C |-> NaN, HQ13D |-> NaN],
     [ECONACT2 |-> "ADULT___NOT_CLASSIFIABLE_EITHER_EMP__UNEMP_OR_INACTIVE",
      HIQUAL4 |-> Unlisted,
      IAGE |-> 16, PROVCARE |-> NaN, TOTPINC |-> NaN,
      CHILD |-> NaN, HHTYPE4 |-> NaN,
      POP_DEN2 |-> NaN, GORPAF |-> NaN,
      HQ13A |-> "MISSING1", HQ13B |-> NaN, HQ13C |-> NaN, HQ13D |-> NaN] >>

\* the k-th household id (SN1, SN2) of the survey, in index order
HouseholdId(k) == <<(k + 1) \div 2, 2 - (k % 2)>>

\* the number of rows of the first k households with the member counts c
RECURSIVE SumTo(_, _)
SumTo(c, k) == IF k = 0 THEN 0 ELSE c[k] + SumTo(c, k - 1)

\* member counts of the households of a table: up to MaxHouseholds
\* households of at least one member each, at most MaxRows rows in all
MemberCounts ==
  UNION {{c \in [1..n -> 1..MaxRows] : SumTo(c, n) <= MaxRows} : n \in 0..MaxHouseholds}

\* the table with c[k] members in household k and RawSamples[p[i]] in row i;
\* the index (SN1, SN2, SN3) is unique and sorted
RawTable(c, p) ==
  [i \in 1..SumTo(c, Len(c)) |->
     LET k == CHOOSE k \in DOMAIN c : SumTo(c, k - 1) < i /\ i <= SumTo(c, k)
     IN  [SN1 |-> HouseholdId(k)[1], SN2 |-> HouseholdId(k)[2],
          SN3 |-> i - SumTo(c, k - 1)] @@ RawSamples[p[i]]]

\* ------------------------------------------------------ scripts/tus/seed.py
\* the index of a row
index(row) == <<row.SN1, row.SN2, row.SN3>>

\* a mapping that leaves out the rows whose household type maps to null
_map_to_internal_types_dropna(individual_data) ==
  SelectSeq(
    [i \in DOMAIN individual_data |->
       [SN1 |-> individual_data[i].SN1, SN2 |-> individual_data[i].SN2,
        SN3 |-> individual_data[i].SN3] @@
       [feature \in FeatureSet |->
          tus_value_to_uo_value(feature,
            [j \in DOMAIN tus_variable_name(feature) |->
               individual_data[i][tus_variable_name(feature)[j]]])]],
    LAMBDA row : ~isnull(row[HOUSEHOLD_TYPE_FEATURE_NAME]))

\* _map_to_internal_types(individual_data), seed.py:48-56: a frame on the
\* index of individual_data with one column per feature
_map_to_internal_types(individual_data) ==
  [i \in DOMAIN individual_data |->
     [SN1 |-> individual_data[i].SN1, SN2 |-> individual_data[i].SN2,
      SN3 |-> individual_data[i].SN3] @@
     [feature \in FeatureSet |->
        tus_value_to_uo_value(feature,
          [j \in DOMAIN tus_variable_name(feature) |->
             individual_data[i][tus_variable_name(feature)[j]]])]]

\* the group key of seed.py:60-61: index levels SN1 and SN2
hh_key(row) == <<row.SN1, row.SN2>>

\* seed.groupby((SN1, SN2)), seed.py:60-61: the rows of each key, in order
hh_groups(seed) ==
  [h \in {hh_key(seed[i]) : i \in DOMAIN seed} |->
     SelectSeq(seed, LAMBDA row : hh_key(row) = h)]

\* GroupBy 'first': the first value of the column that is not null, nan when
\* every value is null
RECURSIVE first(_)
first(column) ==
  IF column = <<>> THEN NaN
  ELSE IF ~isnull(Head(column)) THEN Head(column)
  ELSE first(Tail(column))

\* GroupBy 'count': the number of values of the column that are not null
RECURSIVE count(_)
count(column) ==
  IF column = <<>> THEN 0
  ELSE (IF isnull(Head(column)) THEN 0 ELSE 1) + count(Tail(column))

\* households whose 'type' is the value of the first member row, null or not
households_head(seed) ==
  LET groups == hh_groups(seed)
  IN  [h \in DOMAIN groups |->
         LET column == [i \in DOMAIN groups[h] |->
                          groups[h][i][HOUSEHOLD_TYPE_FEATURE_NAME]]
         IN  [type |-> Head(column), count |-> count(column)]]

\* households of seed.py:62-63: one row per household with the columns
\* 'type' and 'count' of the household-type feature
households(seed) ==
  LET groups == hh_groups(seed)
  IN  [h \in DOMAIN groups |->
         LET column == [i \in DOMAIN groups[h] |->
                          groups[h][i][HOUSEHOLD_TYPE_FEATURE_NAME]]
         IN  [type |-> first(column), count |-> count(column)]]

\* DataFrame.size, the attribute `households.size` of seed.py:66-72: the
\* number of elements of the frame, rows times columns ('type', 'count')
DataFrame_size(df) == Cardinality(DOMAIN df) * Cardinality({"type", "count"})

\* invalids of seed.py:64-73: the labels of the four selections joined by |
invalids(seed) ==
  LET hh == households(seed)
      size == DataFrame_size(hh)
  IN  {h \in DOMAIN hh : hh[h].type = "HouseholdType.COUPLE_WITH_DEPENDENT_CHILDREN"
                          /\ size <= 2}
      \cup
      {h \in DOMAIN hh : hh[h].type = "HouseholdType.COUPLE_WITHOUT_DEPENDENT_CHILDREN"
                          /\ size # 2}
      \cup
      {h \in DOMAIN hh : hh[h].type = "HouseholdType.LONE_PARENT_WITH_DEPENDENT_CHILDREN"
                          /\ size < 2}
      \cup
      {h \in DOMAIN hh : hh[h].type = "HouseholdType.MULTI_PERSON_HOUSEHOLD"
                          /\ size < 2}

\* a length that tells only whether there is a label at all
len_index_any(labels) == IF labels = {} THEN 0 ELSE 1

\* len(invalids.index), seed.py:74: the number of labels of the selection
len_index(labels) == Cardinality(labels)

\* a drop that matches a label against the first member row only
drop_first_member(seed, labels) ==
  SelectSeq(seed, LAMBDA row : ~(hh_key(row) \in labels /\ row.SN3 = 1))

\* seed.drop(labels, level=None), seed.py:75: a label (SN1, SN2) drops every
\* row whose index starts with it
drop(seed, labels) == SelectSeq(seed, LAMBDA row : hh_key(row) \notin labels)

\* _filter_invalid_households(seed), seed.py:59-75
_filter_invalid_households(seed) == drop(seed, invalids(seed))

\* ------------------------------------------- urbanoccupants/tus.py filters
\* A features argument is a Python list or tuple of column names:
\* [type |-> "list" or "tuple", items |-> the names].  A call returns a
\* record whose field raised is "none" or the name of the exception.

\* seed[features], tus.py:25: a list selects the named columns and keeps the
\* index; a tuple is taken for one column label, which the seed does not have
DataFrame_getitem(seed, features) ==
  IF features.type = "list"
  THEN [raised |-> "none",
        value |-> [i \in DOMAIN seed |->
                     [SN1 |-> seed[i].SN1, SN2 |-> seed[i].SN2, SN3 |-> seed[i].SN3] @@
                     [f \in {features.items[j] : j \in DOMAIN features.items} |->
                        seed[i][f]]]]
  ELSE [raised |-> "KeyError", value |-> <<>>]

\* a dropna that drops a row only when all of its columns are null
dropna_how_all(table, columns) ==
  SelectSeq(table, LAMBDA row : columns = {} \/ \E f \in columns : ~isnull(row[f]))

\* dropna(axis='index', how='any'), tus.py:25: the rows without a null
dropna(table, columns) ==
  SelectSeq(table, LAMBDA row : \A f \in columns : ~isnull(row[f]))

\* a filter without the assertion on the row count
filter_features_and_drop_nan_unchecked(seed, features) ==
  LET feature_list == IF features.type = "tuple"
                        THEN [type |-> "list", items |-> features.items]
                        ELSE features
      selected == DataFrame_getitem(seed, feature_list)
  IN  IF selected.raised # "none" THEN selected
      ELSE [raised |-> "none",
            value |-> dropna(selected.value,
                             {feature_list.items[j] : j \in DOMAIN feature_list.items})]

\* filter_features_and_drop_nan(seed, features), tus.py:17-27
filter_features_and_drop_nan(seed, features) ==
  LET feature_list == IF features.type = "tuple"
                        THEN [type |-> "list", items |-> features.items]
                        ELSE features
      selected == DataFrame_getitem(seed, feature_list)
      filtered_seed == dropna(selected.value,
                              {feature_list.items[j] : j \in DOMAIN feature_list.items})
  IN  IF selected.raised # "none" THEN selected
      ELSE IF Len(filtered_seed) > 0 THEN [raised |-> "none", value |-> filtered_seed]
      ELSE [raised |-> "AssertionError", value |-> <<>>]

\* markov_ts.index.droplevel(['daytype', 'time_of_day']), tus.py:43-44: the
\* individual (SN1, SN2, SN3) of a diary entry
droplevel(entry) == <<entry.SN1, entry.SN2, entry.SN3>>

\* a filter that leaves out the last step, the individuals without a diary
filter_features_keeps_undiaried(seed, markov_ts, features) ==
  LET filtered == filter_features_and_drop_nan(seed, [type |-> "list", items |-> features])
      seed1 == filtered.value
      markov1 == SelectSeq(markov_ts, LAMBDA entry :
                   droplevel(entry) \in {index(seed1[i]) : i \in DOMAIN seed1})
  IN  IF filtered.raised # "none"
      THEN [raised |-> filtered.raised, seed |-> <<>>, markov_ts |-> <<>>]
      ELSE [raised |-> "none", seed |-> seed1, markov_ts |-> markov1]

\* filter_features(seed, markov_ts, features), tus.py:30-45; features holds
\* the names str(feature) of the chosen features
filter_features(seed, markov_ts, features) ==
  LET filtered == filter_features_and_drop_nan(seed, [type |-> "list", items |-> features])
      seed1 == filtered.value
      markov1 == SelectSeq(markov_ts, LAMBDA entry :
                   droplevel(entry) \in {index(seed1[i]) : i \in DOMAIN seed1})
      seed2 == SelectSeq(seed1, LAMBDA row :
                   index(row) \in {droplevel(markov1[i]) : i \in DOMAIN markov1})
  IN  IF filtered.raised # "none"
      THEN [raised |-> filtered.raised, seed |-> <<>>, markov_ts |-> <<>>]
      ELSE [raised |-> "none", seed |-> seed2, markov_ts |-> markov1]

\* ------------------------------------------------- inputs of the filters
\* number of rows of a seed handed to the feature filters
MaxSeedRows == 2

\* the seeds handed to the feature filters: mapped tables of the survey
SeedTables ==
  UNION {{_map_to_internal_types(RawTable(c, p)) :
            p \in [1..SumTo(c, Len(c)) -> DOMAIN RawSamples]} :
         c \in {m \in MemberCounts : SumTo(m, Len(m)) <= MaxSeedRows}}

\* the feature choices of a caller, as column names
FeatureChoices ==
  {<<"AGE">>, <<"PSEUDO">>, <<"CARER", "PERSONAL_INCOME">>,
   <<"HOUSEHOLD_TYPE", "DWELLING_TYPE">>}

\* an individual with diaries who is in no seed
ForeignIndividual == <<9, 9, 9>>

\* the diary entries of one individual: a weekday and a weekend entry
Diaries(person) ==
  <<[SN1 |-> person[1], SN2 |-> person[2], SN3 |-> person[3],
     daytype |-> "weekday", time_of_day |-> 1, state |-> "HOME"],
    [SN1 |-> person[1], SN2 |-> person[2], SN3 |-> person[3],
     daytype |-> "weekend", time_of_day |-> 1, state |-> "NOT_AT_HOME"]>>

\* the time series holding the diaries of the persons k with has_diary[k]
RECURSIVE MarkovTs(_, _, _)
MarkovTs(persons, has_diary, k) ==
  IF k = 0 THEN <<>>
  ELSE MarkovTs(persons, has_diary, k - 1)
       \o (IF has_diary[k] THEN Diaries(persons[k]) ELSE <<>>)

\* the individuals a time series may hold for a seed: those of the seed and
\* the foreign one
Persons(table) == [i \in DOMAIN table |-> index(table[i])] \o <<ForeignIndividual>>

\* ------------------------------------------------ seed.py: _read_raw_data
\* A frame of the survey files is [index, columns, values]: the row labels
\* (tuples of serial numbers), the column names in order (a name may occur
\* twice) and per row the values in column order.

\* the order of Python tuples: element by element, a proper prefix first
RECURSIVE tuple_le(_, _)
tuple_le(a, b) ==
  IF a = <<>> THEN TRUE
  ELSE IF b = <<>> THEN FALSE
  ELSE IF a[1] < b[1] THEN TRUE
  ELSE IF a[1] > b[1] THEN FALSE
  ELSE tuple_le(Tail(a), Tail(b))

\* hhdata.reindex(individuals.index, method='ffill'), seed.py:43: each label
\* of the new index takes the row of the last label of the sorted old index
\* that is not greater, a row of nan when there is none
reindex(frame, labels) ==
  [index |-> labels,
   columns |-> frame.columns,
   values |-> [i \in DOMAIN labels |->
                 LET pad == {k \in DOMAIN frame.index : tuple_le(frame.index[k], labels[i])}
                 IN  IF pad = {} THEN [c \in DOMAIN frame.columns |-> NaN]
                     ELSE frame.values[CHOOSE k \in pad : \A m \in pad : m <= k]]]

\* pd.concat([left, right], axis=1), seed.py:43, of two frames of one index:
\* the columns of the left followed by the columns of the right
concat(left, right) ==
  [index |-> left.index,
   columns |-> left.columns \o right.columns,
   values |-> [i \in DOMAIN left.index |-> left.values[i] \o right.values[i]]]

\* columns.duplicated(), seed.py:44: true of every occurrence of a name
\* after its first
duplicated(columns) ==
  [j \in DOMAIN columns |-> \E k \in 1..(j - 1) : columns[k] = columns[j]]

RECURSIVE select(_, _)
\* the elements of a sequence at the positions a mask marks true
select(s, mask) ==
  IF s = <<>> THEN <<>>
  ELSE (IF Head(mask) THEN <<Head(s)>> ELSE <<>>) \o select(Tail(s), Tail(mask))

\* merged_data.loc[:, mask], seed.py:44
loc(frame, mask) ==
  [index |-> frame.index,
   columns |-> select(frame.columns, mask),
   values |-> [i \in DOMAIN frame.index |-> select(frame.values[i], mask)]]

\* _read_raw_data, seed.py:36-45, on the frames read from the two files
_read_raw_data(individuals, hhdata) ==
  LET merged_data == concat(individuals, reindex(hhdata, individuals.index))
      dup == duplicated(merged_data.columns)
  IN  loc(merged_data, [j \in DOMAIN dup |-> ~dup[j]])

\* the household file holds some of the first MaxFileHouseholds households,
\* the individual file up to MaxFileIndividuals of their members
MaxFileHouseholds == 3
MaxFileIndividuals == 2

\* the labels of a set in index order
sorted(labels) ==
  CHOOSE s \in [1..Cardinality(labels) -> labels] :
    \A i, j \in 1..Cardinality(labels) : i < j => s[i] # s[j] /\ tuple_le(s[i], s[j])

\* the household labels (SN1, SN2) a file can hold
HouseholdLabels == {HouseholdId(k) : k \in 1..MaxFileHouseholds}

\* the individual labels (SN1, SN2, SN3) a file can hold
IndividualLabels == {<<h[1], h[2], n>> : h \in HouseholdLabels, n \in 1..2}

\* the frame of the individual file for a set of individuals: index
\* (SN1, SN2, SN3), sorted, with a column the household file holds as well
IndividualFile(persons) ==
  LET labels == sorted(persons)
  IN  [index |-> labels,
       columns |-> <<"PROVCARE", "GORPAF">>,
       values |-> [i \in DOMAIN labels |->
                     <<IF labels[i][3] = 1 THEN "YES" ELSE "NO", "LONDON">>]]

\* the frame of the household file for a set of households and their type
\* of accommodation: index (SN1, SN2), sorted
HouseholdFile(hhs, hq13a) ==
  LET labels == sorted(hhs)
  IN  [index |-> labels,
       columns |-> <<"GORPAF", "HQ13A">>,
       values |-> [i \in DOMAIN labels |-> <<"WALES", hq13a[labels[i]]>>]]

\* ------------------------------------------------------------------- state
\* position of read_seed: start, read, mapped, filtered, done
VARIABLE pc
\* the merged raw table of seed.py:28
VARIABLE individual_data
\* the seed of seed.py:30-31
VARIABLE seed
\* the lines printed, each <<text, number>>
VARIABLE stdout
\* the table written to path_to_output, <<>> before the write
VARIABLE pickle
\* mapping layer: the feature last mapped
VARIABLE feature
\* mapping layer: the raw value tuple last mapped
VARIABLE feature_values
\* mapping layer: the result of the last mapping
VARIABLE uo_value
\* functions checked on their own: the last call, its name and its arguments
VARIABLE call
\* functions checked on their own: what the last call returned or raised
VARIABLE returned

vars ==
  <<pc, individual_data, seed, stdout, pickle, feature, feature_values, uo_value,
    call, returned>>

pipeline_vars == <<pc, individual_data, seed, stdout, pickle>>
mapping_vars == <<feature, feature_values, uo_value>>
filter_vars == <<call, returned>>

Init ==
  /\ pc = "start"
  /\ individual_data = <<>>
  /\ seed = <<>>
  /\ stdout = <<>>
  /\ pickle = <<>>
  /\ feature = "none"
  /\ feature_values = <<>>
  /\ uo_value = NaN
  /\ call = [name |-> "none"]
  /\ returned = [raised |-> "none"]

\* seed.py:28-29: read and merge the survey files, print the row count
ReadRawData ==
  /\ pc = "start"
  /\ \E c \in MemberCounts :
       \E p \in [1..SumTo(c, Len(c)) -> DOMAIN RawSamples] :
         /\ individual_data' = RawTable(c, p)
         /\ stdout' = Append(stdout, <<"Read", Len(RawTable(c, p))>>)
  /\ pc' = "read"
  /\ UNCHANGED <<seed, pickle, mapping_vars, filter_vars>>

\* seed.py:30
MapToInternalTypes ==
  /\ pc = "read"
  /\ seed' = _map_to_internal_types(individual_data)
  /\ pc' = "mapped"
  /\ UNCHANGED <<individual_data, stdout, pickle, mapping_vars, filter_vars>>

\* seed.py:31 with the print of seed.py:74
FilterInvalidHouseholds ==
  /\ pc = "mapped"
  /\ stdout' = Append(stdout, <<"invalid", len_index(invalids(seed))>>)
  /\ seed' = _filter_invalid_households(seed)
  /\ pc' = "filtered"
  /\ UNCHANGED <<individual_data, pickle, mapping_vars, filter_vars>>

\* seed.py:32-33
WriteSeed ==
  /\ pc = "filtered"
  /\ stdout' = Append(stdout, <<"Write", Len(seed)>>)
  /\ pickle' = seed
  /\ pc' = "done"
  /\ UNCHANGED <<individual_data, seed, mapping_vars, filter_vars>>

Next == ReadRawData \/ MapToInternalTypes \/ FilterInvalidHouseholds \/ WriteSeed

Spec == Init /\ [][Next]_vars

\* The mapping layer on its own: any feature applied to any raw value.
MapValue ==
  /\ \E f \in FeatureSet :
       \E v \in RawValues(f) :
         /\ feature' = f
         /\ feature_values' = v
         /\ uo_value' = tus_value_to_uo_value(f, v)
  /\ UNCHANGED <<pipeline_vars, filter_vars>>

NextMap == MapValue

SpecMap == Init /\ [][NextMap]_vars

\* The feature filters of tus.py on their own: one call of either function
\* with any seed, feature choice and time series.
CallFilterFeaturesAndDropNan ==
  /\ call.name = "none"
  /\ \E s \in SeedTables : \E items \in FeatureChoices : \E type \in {"list", "tuple"} :
       /\ call' = [name |-> "filter_features_and_drop_nan", seed |-> s,
                   features |-> [type |-> type, items |-> items]]
       /\ returned' = filter_features_and_drop_nan(s, [type |-> type, items |-> items])
  /\ UNCHANGED <<pipeline_vars, mapping_vars>>

CallFilterFeatures ==
  /\ call.name = "none"
  /\ \E s \in SeedTables : \E items \in FeatureChoices :
       \E has_diary \in [1..Len(s) + 1 -> BOOLEAN] :
         LET markov_ts == MarkovTs(Persons(s), has_diary, Len(s) + 1)
         IN  /\ call' = [name |-> "filter_features", seed |-> s,
                         markov_ts |-> markov_ts, features |-> items]
             /\ returned' = filter_features(s, markov_ts, items)
  /\ UNCHANGED <<pipeline_vars, mapping_vars>>

NextFilter == CallFilterFeaturesAndDropNan \/ CallFilterFeatures

SpecFilter == Init /\ [][NextFilter]_vars

\* _read_raw_data on its own: one call with any pair of files.
CallReadRawData ==
  /\ call.name = "none"
  /\ \E persons \in {p \in SUBSET IndividualLabels :
                       Cardinality(p) \in 1..MaxFileIndividuals} :
       \E hhs \in SUBSET HouseholdLabels :
         \E hq13a \in [hhs -> {"A_HOUSE_OR_BUNGALOW", "A_FLAT_OR_MAISONETTE"}] :
           LET individuals == IndividualFile(persons)
               hhdata == HouseholdFile(hhs, hq13a)
           IN  /\ call' = [name |-> "_read_raw_data", individuals |-> individuals,
                           hhdata |-> hhdata]
               /\ returned' = [raised |-> "none",
                               value |-> _read_raw_data(individuals, hhdata)]
  /\ UNCHANGED <<pipeline_vars, mapping_vars>>

NextRead == CallReadRawData

SpecRead == Init /\ [][NextRead]_vars

\* ------------------------------------------------------------- properties
\* the seed as it was before the household filter
mapped_seed == _map_to_internal_types(individual_data)

\* the household ids of a table
household_ids(table) == {hh_key(table[i]) : i \in DOMAIN table}

\* the member rows of a household, in table order
member_rows(table, h) == SelectSeq(table, LAMBDA row : hh_key(row) = h)

\* the size of a household: the number of its member rows
member_count(table, h) == Len(member_rows(table, h))

\* the type of a household: the household-type category of its first member
declared_type(table, h) == member_rows(table, h)[1][HOUSEHOLD_TYPE_FEATURE_NAME]

\* the four invalidity rules of the household validator, as documented
is_invalid(type, size) ==
  \/ type = "HouseholdType.COUPLE_WITH_DEPENDENT_CHILDREN" /\ size <= 2
  \/ type = "HouseholdType.COUPLE_WITHOUT_DEPENDENT_CHILDREN" /\ size # 2
  \/ type = "HouseholdType.LONE_PARENT_WITH_DEPENDENT_CHILDREN" /\ size < 2
  \/ type = "HouseholdType.MULTI_PERSON_HOUSEHOLD" /\ size < 2

filter_done == pc \in {"filtered", "done"}

\* C1: after _filter_invalid_households every remaining household of type
\* COUPLE_WITH_DEPENDENT_CHILDREN has more than 2 member rows.
C1_CoupleWithChildrenHasOverTwoMembers ==
  filter_done =>
    \A h \in household_ids(seed) :
      declared_type(seed, h) = "HouseholdType.COUPLE_WITH_DEPENDENT_CHILDREN"
        => member_count(seed, h) > 2

\* C2: after _filter_invalid_households every remaining household of type
\* COUPLE_WITHOUT_DEPENDENT_CHILDREN has exactly 2 member rows; those with 1
\* or with 3 or more members are removed.
C2_CoupleWithoutChildrenHasTwoMembers ==
  filter_done =>
    /\ \A h \in household_ids(seed) :
         declared_type(seed, h) = "HouseholdType.COUPLE_WITHOUT_DEPENDENT_CHILDREN"
           => member_count(seed, h) = 2
    /\ \A h \in household_ids(mapped_seed) :
         /\ declared_type(mapped_seed, h)
              = "HouseholdType.COUPLE_WITHOUT_DEPENDENT_CHILDREN"
         /\ member_count(mapped_seed, h) # 2
         => h \notin household_ids(seed)

\* C3: a LONE_PARENT_WITH_DEPENDENT_CHILDREN household is removed when it has
\* 1 member and kept when it has 2 or more, whatever other households the
\* table holds.
C3_LoneParentRemovedIffSingleMember ==
  filter_done =>
    \A h \in household_ids(mapped_seed) :
      declared_type(mapped_seed, h) = "HouseholdType.LONE_PARENT_WITH_DEPENDENT_CHILDREN"
        => /\ member_count(mapped_seed, h) = 1 => h \notin household_ids(seed)
           /\ member_count(mapped_seed, h) >= 2 => h \in household_ids(seed)

\* C4: a MULTI_PERSON_HOUSEHOLD household with fewer than 2 members is
\* removed and one with 2 or more members is kept, whatever other households
\* the table holds.
C4_MultiPersonRemovedIffSingleMember ==
  filter_done =>
    \A h \in household_ids(mapped_seed) :
      declared_type(mapped_seed, h) = "HouseholdType.MULTI_PERSON_HOUSEHOLD"
        => /\ member_count(mapped_seed, h) < 2 => h \notin household_ids(seed)
           /\ member_count(mapped_seed, h) >= 2 => h \in household_ids(seed)

\* C5: removal is all-or-nothing per household: of every household id either
\* all member rows are in the output or none is, and a household the filter
\* removes leaves no row behind.
C5_RemovalIsAllOrNothing ==
  filter_done =>
    LET before == mapped_seed
        removed == invalids(before)
    IN  \A h \in household_ids(before) :
          /\ \/ member_rows(seed, h) = member_rows(before, h)
             \/ member_rows(seed, h) = <<>>
          /\ h \in removed => member_rows(seed, h) = <<>>

\* C5 witness: a household of two rows was removed whole while another
\* household stayed.
C5_Witness ==
  /\ pc = "filtered"
  /\ \E h \in household_ids(mapped_seed) :
       /\ member_count(mapped_seed, h) >= 2
       /\ member_rows(seed, h) = <<>>
  /\ Len(seed) > 0

\* C6: the validity check of a household uses that household's own data
\* only: a household is removed exactly when the rules hold of the type of
\* its first member row and of the number of its member rows.
C6_VerdictFromOwnTypeAndSize ==
  filter_done =>
    \A h \in household_ids(mapped_seed) :
      (h \notin household_ids(seed))
        <=> is_invalid(declared_type(mapped_seed, h), member_count(mapped_seed, h))

\* C7: _map_to_internal_types never drops, adds or reorders rows: the mapped
\* table has the row count and the row index of the input, also when raw
\* codes map to null.
C7_MappingKeepsRows ==
  pc = "mapped" =>
    /\ Len(seed) = Len(individual_data)
    /\ \A i \in DOMAIN seed : index(seed[i]) = index(individual_data[i])

\* C7 witness: a table of several rows was mapped and some raw codes of it
\* mapped to null.
C7_Witness ==
  /\ pc = "mapped"
  /\ Len(individual_data) >= 2
  /\ \E i \in DOMAIN seed : isnull(seed[i][HOUSEHOLD_TYPE_FEATURE_NAME])
  /\ \E i \in DOMAIN seed : seed[i]["DWELLING_TYPE"] = None

UnknownCodes(f) ==
  CASE f = "ECONOMIC_ACTIVITY" ->
         {"ECON_INACTIVE___DK_REASONS",
          "ADULT___NOT_CLASSIFIABLE_EITHER_EMP__UNEMP_OR_INACTIVE",
          "UNDER_16YRS___INELIGIBLE_FOR_EMPLOYMENT_QUESTIONS",
          "ECON_ACTIVE___DK_EMPSELFFULLPART", NaN}
    [] f = "QUALIFICATION" ->
         {"QUALIFICATIONS___CITY_AND_GUILDS___DK_LEVEL",
          "QUALIFICATIONS___OTHER___BUT_DK_GRADELEVEL",
          "ELIGIBLE___NO_ANSWER",
          "UNDER_16YRS___INELIGIBLE_FOR_QUALIFICATIONS_QUESTIONS",
          "QUALIFICATIONS___BUT_DK_WHICH",
          "QUALIFICATIONS___GCSE___BUT_DK_GRADE", NaN}
    [] f = "HOUSEHOLD_TYPE" ->
         {"UNCLASSIFIED___OTHER_HHLDS_WITHOUT_COUPLES_EG_BROTHERS_DK", NaN}
    [] f = "CARER" -> {"DKREFUSE", NaN}
    [] f = "PERSONAL_INCOME" ->
         {"INELIGIBLE___UNDER_16YRS",
          "INELIGIBLE___NOT_CURRENTLY_EMPLOYED_SELF_EMPLOYED",
          "ELIGIBLE_CURRENT_EMPLOYEE_OR_SELF_EMP___DK_REFUSE_INCOME", NaN}
    [] f = "POPULATION_DENSITY" -> {"MISSING", NaN}
    [] f = "PSEUDO" -> {NaN}
    [] f = "REGION" -> {NaN}
    [] f = "DWELLING_TYPE" -> {"MISSING1", NaN}
    [] OTHER -> {}

\* the unknown codes the tables map to a category, with that category
KnownExceptions(f) ==
  CASE f = "ECONOMIC_ACTIVITY" ->
         "UNDER_16YRS___INELIGIBLE_FOR_EMPLOYMENT_QUESTIONS" :> "EconomicActivity.BELOW_16"
         @@ "ECON_INACTIVE___DK_REASONS" :> "EconomicActivity.INACTIVE_OTHER"
    [] f = "QUALIFICATION" ->
         "UNDER_16YRS___INELIGIBLE_FOR_QUALIFICATIONS_QUESTIONS" :> "Qualification.BELOW_16"
    [] f = "PERSONAL_INCOME" ->
         "INELIGIBLE___UNDER_16YRS" :> "PersonalIncome.BELOW_16"
    [] f = "HOUSEHOLD_TYPE" ->
         "UNCLASSIFIED___OTHER_HHLDS_WITHOUT_COUPLES_EG_BROTHERS_DK"
           :> "HouseholdType.MULTI_PERSON_HOUSEHOLD"
    [] f = "PSEUDO" -> NaN :> "Pseudo.SINGLETON"
    [] OTHER -> <<>>

\* the raw value just mapped denotes an unknown answer (for the dwelling
\* type: its first field HQ13A does)
unknown_mapped ==
  /\ feature \notin {"none", "AGE"}
  /\ feature_values[1] \in UnknownCodes(feature)

\* C9 as stated: every raw code that denotes an unknown, refused, missing or
\* not-applicable answer maps to null and to no category.
C9_UnknownCodesMapToNull == unknown_mapped => isnull(uo_value)

\* C9 as amended: an unknown code maps to null, except the under-16
\* ineligible codes (BELOW_16), ECON_INACTIVE___DK_REASONS (INACTIVE_OTHER),
\* UNCLASSIFIED___OTHER_HHLDS_WITHOUT_COUPLES_EG_BROTHERS_DK
\* (MULTI_PERSON_HOUSEHOLD) and the missing value of the pseudo feature
\* (SINGLETON), which map to the category named.
C9_UnknownCodesMapToNullButExceptions ==
  unknown_mapped =>
    IF feature_values[1] \in DOMAIN KnownExceptions(feature)
    THEN uo_value = KnownExceptions(feature)[feature_values[1]]
    ELSE isnull(uo_value)

\* C9 witness: the refused carer answer was mapped, to null.
C9_Witness ==
  feature = "CARER" /\ feature_values = <<"DKREFUSE">> /\ uo_value = NaN

\* the ages an age band is named after; AGE_90_AND_OVER has no upper end
BandBounds ==
  "AgeStructure.AGE_8_TO_9" :> <<8, 9>> @@
  "AgeStructure.AGE_10_TO_14" :> <<10, 14>> @@
  "AgeStructure.AGE_15" :> <<15, 15>> @@
  "AgeStructure.AGE_16_TO_17" :> <<16, 17>> @@
  "AgeStructure.AGE_18_TO_19" :> <<18, 19>> @@
  "AgeStructure.AGE_20_TO_24" :> <<20, 24>> @@
  "AgeStructure.AGE_25_TO_29" :> <<25, 29>> @@
  "AgeStructure.AGE_30_TO_44" :> <<30, 44>> @@
  "AgeStructure.AGE_45_TO_59" :> <<45, 59>> @@
  "AgeStructure.AGE_60_TO_64" :> <<60, 64>> @@
  "AgeStructure.AGE_65_TO_74" :> <<65, 74>> @@
  "AgeStructure.AGE_75_TO_84" :> <<75, 84>> @@
  "AgeStructure.AGE_85_TO_89" :> <<85, 89>> @@
  "AgeStructure.AGE_90_AND_OVER" :> <<90>>

in_band(age, band) ==
  /\ BandBounds[band][1] <= age
  /\ Len(BandBounds[band]) = 2 => age <= BandBounds[band][2]

age_band(age) == tus_value_to_uo_value("AGE", <<age>>)

\* C10: the age mapping is banded: every age from 8 to 99 maps to one age
\* band, the band whose name bounds contain it (8-9 to AGE_8_TO_9, 10-14 to
\* AGE_10_TO_14); each band is a contiguous range of ages and the band order
\* is monotone in age.
C10_AgeMappingIsBanded ==
  (feature = "AGE" /\ feature_values[1] \in 8..99) =>
    LET age == feature_values[1] IN
    /\ uo_value \in AgeStructure
    /\ in_band(age, uo_value)
    /\ age \in 8..9 => uo_value = "AgeStructure.AGE_8_TO_9"
    /\ age \in 10..14 => uo_value = "AgeStructure.AGE_10_TO_14"
    /\ \A lower \in 8..age : \A upper \in age..99 :
         /\ age_band(lower) \in AgeStructure
         /\ age_band(upper) \in AgeStructure
         /\ BandBounds[age_band(lower)][1] <= BandBounds[uo_value][1]
         /\ BandBounds[uo_value][1] <= BandBounds[age_band(upper)][1]
         /\ age_band(lower) = age_band(upper) => uo_value = age_band(lower)

\* C10 witness: the last age of a band and the first of the next were mapped.
C10_Witness ==
  /\ feature = "AGE"
  /\ \/ feature_values = <<14>> /\ uo_value = "AgeStructure.AGE_10_TO_14"
     \/ feature_values = <<15>> /\ uo_value = "AgeStructure.AGE_15"

\* the decision table of the dwelling type: the listed combinations of
\* (HQ13A, the deciding sub-attribute) and their category
DwellingDecisionTable ==
  <<"A_HOUSE_OR_BUNGALOW", "DETACHED">>
     :> "DwellingType.DETACHED_WHOLE_HOUSE_OR_BUNGALOW" @@
  <<"A_HOUSE_OR_BUNGALOW", "SEMI_DETACHED">>
     :> "DwellingType.SEMI_DETACHED_WHOLE_HOUSE_OR_BUNGALOW" @@
  <<"A_HOUSE_OR_BUNGALOW", "OR_TERRACEEND_OF_TERRACE">>
     :> "DwellingType.TERRACED_WHOLE_HOUSE_OR_BUNGALOW" @@
  <<"A_FLAT_OR_MAISONETTE", "A_PURPOSE_BUILT_BLOCK">>
     :> "DwellingType.FLAT_PURPOSE_BUILT_BLOCK" @@
  <<"A_FLAT_OR_MAISONETTE", "A_CONVERTED_HOUSESOME_OTHER_KIND_OF_BUILDING">>
     :> "DwellingType.FLAT_CONVERTED_OR_SHARED_HOUSE" @@
  <<"OTHER", "A_CARAVAN__MOBILE_HOME_OR_HOUSEBOAT">> :> "DwellingType.CARAVAN" @@
  <<"OTHER", "SOME_OTHER_KIND_OF_ACCOMMODATION">> :> "DwellingType.OTHER"

\* the sub-attribute that decides for a kind of accommodation: HQ13B for a
\* house, HQ13C for a flat, HQ13D for 'other'
deciding_attribute(row) ==
  CASE row[1] = "A_HOUSE_OR_BUNGALOW" -> row[2]
    [] row[1] = "A_FLAT_OR_MAISONETTE" -> row[3]
    [] row[1] = "OTHER" -> row[4]
    [] OTHER -> NaN

\* C11: dwellingtype_map is a decision table over (HQ13A, HQ13B, HQ13C,
\* HQ13D): house, flat and 'other' with a listed sub-attribute give the
\* listed category, room(s) gives OTHER, a missing HQ13A gives null, and
\* every combination not listed gives null, never an error or a category.
C11_DwellingDecisionTable ==
  feature = "DWELLING_TYPE" =>
    LET key == <<feature_values[1], deciding_attribute(feature_values)>>
    IN  IF key \in DOMAIN DwellingDecisionTable
          THEN uo_value = DwellingDecisionTable[key]
        ELSE IF feature_values[1] = "A_ROOMROOMS"
          THEN uo_value = "DwellingType.OTHER"
        ELSE isnull(uo_value)

\* C11 witness: a listed combination, a house of unknown HQ13B and a missing
\* HQ13A were each mapped.
C11_Witness ==
  /\ feature = "DWELLING_TYPE"
  /\ \/ /\ feature_values[1] = "OTHER"
        /\ feature_values[4] = "A_CARAVAN__MOBILE_HOME_OR_HOUSEBOAT"
        /\ uo_value = "DwellingType.CARAVAN"
     \/ /\ feature_values[1] = "A_HOUSE_OR_BUNGALOW"
        /\ feature_values[2] = Unlisted
        /\ isnull(uo_value)
     \/ /\ feature_values[1] = "MISSING1"
        /\ isnull(uo_value)

\* C13: filter_features_and_drop_nan never returns an empty table: it
\* returns a table of at least one row or fails with an assertion error.
C13_NeverReturnsEmptyTable ==
  call.name = "filter_features_and_drop_nan" =>
    \/ returned.raised = "none" /\ Len(returned.value) > 0
    \/ returned.raised = "AssertionError"

\* C13 witness: a seed with rows, all of them with a null in a chosen
\* feature, made the call fail with the assertion error.
C13_Witness ==
  /\ call.name = "filter_features_and_drop_nan"
  /\ Len(call.seed) > 0
  /\ returned.raised = "AssertionError"

\* the columns a features argument names
chosen(features) == {features.items[j] : j \in DOMAIN features.items}

\* the individuals of a table without a null in any of the columns, each
\* restricted to its index and those columns
complete_individuals(table, columns) ==
  LET kept == SelectSeq(table, LAMBDA row : ~(\E f \in columns : row[f] \in {NaN, None}))
  IN  [i \in DOMAIN kept |->
         [f \in {"SN1", "SN2", "SN3"} \cup columns |-> kept[i][f]]]

\* C17: filter_features_and_drop_nan returns exactly the individuals of the
\* seed for which every chosen feature is non-null, restricted to the chosen
\* feature columns, and a tuple of features behaves like the same list.
C17_ReturnsCompleteIndividuals ==
  call.name = "filter_features_and_drop_nan" =>
    /\ returned.raised = "none"
         => returned.value = complete_individuals(call.seed, chosen(call.features))
    /\ returned.raised # "none"
         => complete_individuals(call.seed, chosen(call.features)) = <<>>
    /\ returned = filter_features_and_drop_nan(call.seed,
                    [type |-> "list", items |-> call.features.items])

\* C17 witness: called with a tuple, the filter dropped an individual with a
\* null in a chosen feature and kept one with nulls in other features only.
C17_Witness ==
  /\ call.name = "filter_features_and_drop_nan"
  /\ call.features.type = "tuple"
  /\ returned.raised = "none"
  /\ Len(returned.value) < Len(call.seed)
  /\ \E i \in DOMAIN call.seed :
       /\ index(call.seed[i]) \in {index(returned.value[j]) : j \in DOMAIN returned.value}
       /\ \E f \in FeatureSet \ chosen(call.features) : isnull(call.seed[i][f])

\* C18: after filter_features the returned seed and markov_ts agree: every
\* diary belongs to an individual of the seed, every individual of the seed
\* has a diary, and no individual has a null in a chosen feature.
C18_SeedAndMarkovTsAgree ==
  (call.name = "filter_features" /\ returned.raised = "none") =>
    LET individuals == {index(returned.seed[i]) : i \in DOMAIN returned.seed}
        diarists == {droplevel(returned.markov_ts[i]) : i \in DOMAIN returned.markov_ts}
    IN  /\ diarists \subseteq individuals
        /\ individuals \subseteq diarists
        /\ \A i \in DOMAIN returned.seed :
             \A j \in DOMAIN call.features :
               ~isnull(returned.seed[i][call.features[j]])

\* C18 witness: the filter returned individuals, having dropped an
\* individual without a diary and the diaries of a foreign individual.
C18_Witness ==
  /\ call.name = "filter_features"
  /\ returned.raised = "none"
  /\ Len(returned.seed) > 0
  /\ Len(returned.markov_ts) < Len(call.markov_ts)
  /\ \E i \in DOMAIN call.seed :
       /\ \A j \in DOMAIN call.features : ~isnull(call.seed[i][call.features[j]])
       /\ index(call.seed[i]) \notin {index(returned.seed[k]) : k \in DOMAIN returned.seed}

\* C14: a run of read_seed in which filtering leaves zero rows fails with an
\* assertion error and aborts instead of writing the output table: no run
\* reaches its end having written a table of zero rows.
C14_EmptySeedIsNotWritten ==
  pc = "done" => Len(pickle) > 0

\* the households whose rows the filter dropped
removed_households(before, after) == household_ids(before) \ household_ids(after)

\* C15: the run reports the number of removed households and of removed
\* individuals: the reported household count is the number of distinct
\* household ids whose rows were dropped, and the 'Read' count minus the
\* 'Write' count is the number of individuals that were dropped.
C15_ReportedCounts ==
  pc = "done" =>
    LET before == mapped_seed
    IN  /\ Len(stdout) = 3
        /\ stdout[1][1] = "Read" /\ stdout[2][1] = "invalid" /\ stdout[3][1] = "Write"
        /\ stdout[2][2] = Cardinality(removed_households(before, pickle))
        /\ stdout[1][2] - stdout[3][2]
             = Cardinality({i \in DOMAIN before :
                              index(before[i]) \notin {index(pickle[j]) : j \in DOMAIN pickle}})

\* C15 witness: a run that removed two households, three individuals in all.
C15_Witness ==
  /\ pc = "done"
  /\ stdout[2][2] = 2
  /\ stdout[1][2] - stdout[3][2] = 3

\* the groups of a table partition its rows: every row is in exactly one group
groups_partition(table) ==
  LET groups == hh_groups(table)
  IN  /\ \A i \in DOMAIN table :
           Cardinality({h \in DOMAIN groups :
                          \E j \in DOMAIN groups[h] : groups[h][j] = table[i]}) = 1
      /\ \A h \in DOMAIN groups :
           \A j \in DOMAIN groups[h] :
             \E i \in DOMAIN table : table[i] = groups[h][j]

\* the household-type categories of the members of a household, in order
member_types(table, h) ==
  LET rows == member_rows(table, h)
  IN  [j \in DOMAIN rows |-> rows[j][HOUSEHOLD_TYPE_FEATURE_NAME]]

seed_is_mapped == pc \in {"mapped", "filtered", "done"}

C19_ValidHouseholdsAreKept ==
  filter_done =>
    LET before == mapped_seed
    IN  \A h \in household_ids(before) :
          LET rows == member_rows(before, h)
          IN  ~is_invalid(rows[1][HOUSEHOLD_TYPE_FEATURE_NAME], Len(rows))
                => member_rows(seed, h) = rows

\* C20: _filter_invalid_households is idempotent: applied to its own output
\* it removes no further household.
C20_FilterIsIdempotent ==
  filter_done => _filter_invalid_households(seed) = seed

\* the position of a column name in a frame
column_of(frame, name) == CHOOSE j \in DOMAIN frame.columns : frame.columns[j] = name

\* C21: in _read_raw_data every individual row receives the household-level
\* fields of the household with its own household id and never those of a
\* different household (nan when the household file has no such household);
\* the merged table has one row per input individual and no duplicated
\* column.
C21_RowsReceiveOwnHousehold ==
  call.name = "_read_raw_data" =>
    LET merged == returned.value
        hhdata == call.hhdata
        household_level == {hhdata.columns[j] : j \in DOMAIN hhdata.columns}
                             \ {call.individuals.columns[j] : j \in DOMAIN call.individuals.columns}
    IN  /\ merged.index = call.individuals.index
        /\ \A j, k \in DOMAIN merged.columns : j # k => merged.columns[j] # merged.columns[k]
        /\ \A i \in DOMAIN merged.index :
             \A name \in household_level :
               LET own == {k \in DOMAIN hhdata.index :
                             hhdata.index[k] = <<merged.index[i][1], merged.index[i][2]>>}
                   value == merged.values[i][column_of(merged, name)]
               IN  IF own = {} THEN isnull(value)
                   ELSE \A k \in own : value = hhdata.values[k][column_of(hhdata, name)]

====
